---- MODULE Spec2Model ----
(***************************************************************************)
(* ButterflyCode, the Java editor (butterflyCode.py): the regex syntax     *)
(* highlighter JavaHighlighter, the auto-indenting key handler of          *)
(* CodeEditor and the save / compile / run pipeline of JavaEditorMain.     *)
(*                                                                         *)
(* A text is a sequence of characters, each character a one-character      *)
(* string.  Offsets reported by the regex engine (capturedStart) and the   *)
(* cursor column are 0-based as in Qt; sequence indexes are 1-based.       *)
(***************************************************************************)
EXTENDS Integers, Sequences, FiniteSets, TLC

(* ---------------------------------------------------------------------- *)
(* Bounds of the model                                                     *)
(* ---------------------------------------------------------------------- *)

\* number of key events of one editing session
MaxKeys == 5

\* number of key events of a session that types one line of Java
MaxLineKeys == 4

\* lines the console holds before further saves are held back
MaxConsole == 2

\* warning dialogs shown in one session
MaxWarnings == 2

(* ---------------------------------------------------------------------- *)
(* Characters                                                              *)
(* ---------------------------------------------------------------------- *)

SP == " "
TAB == "\t"
QUOTE == "\""
LBRACE == "{"

\* \w of QRegularExpression without UseUnicodePropertiesOption: ASCII only
WordChars ==
    { "a","b","c","d","e","f","g","h","i","j","k","l","m",
      "n","o","p","q","r","s","t","u","v","w","x","y","z",
      "A","B","C","D","E","F","G","H","I","J","K","L","M",
      "N","O","P","Q","R","S","T","U","V","W","X","Y","Z",
      "0","1","2","3","4","5","6","7","8","9","_" }

\* the characters str.strip() removes that a key event can put in a block
Whitespace == { SP, TAB }

(* ---------------------------------------------------------------------- *)
(* JavaHighlighter.__init__ : the rule table                               *)
(* ---------------------------------------------------------------------- *)

keywordFormat == "#0000FF"
stringFormat == "#A31515"
\* the default QTextCharFormat of a position no setFormat call reached
NoFormat == "default"

keywords == <<
    <<"a","b","s","t","r","a","c","t">>,
    <<"a","s","s","e","r","t">>,
    <<"b","o","o","l","e","a","n">>,
    <<"b","r","e","a","k">>,
    <<"b","y","t","e">>,
    <<"c","a","s","e">>,
    <<"c","a","t","c","h">>,
    <<"c","h","a","r">>,
    <<"c","l","a","s","s">>,
    <<"c","o","n","s","t">>,
    <<"c","o","n","t","i","n","u","e">>,
    <<"d","e","f","a","u","l","t">>,
    <<"d","o">>,
    <<"d","o","u","b","l","e">>,
    <<"e","l","s","e">>,
    <<"e","n","u","m">>,
    <<"e","x","t","e","n","d","s">>,
    <<"f","i","n","a","l">>,
    <<"f","i","n","a","l","l","y">>,
    <<"f","l","o","a","t">>,
    <<"f","o","r">>,
    <<"g","o","t","o">>,
    <<"i","f">>,
    <<"i","m","p","l","e","m","e","n","t","s">>,
    <<"i","m","p","o","r","t">>,
    <<"i","n","s","t","a","n","c","e","o","f">>,
    <<"i","n","t">>,
    <<"i","n","t","e","r","f","a","c","e">>,
    <<"l","o","n","g">>,
    <<"n","a","t","i","v","e">>,
    <<"n","e","w">>,
    <<"n","u","l","l">>,
    <<"p","a","c","k","a","g","e">>,
    <<"p","r","i","v","a","t","e">>,
    <<"p","r","o","t","e","c","t","e","d">>,
    <<"p","u","b","l","i","c">>,
    <<"r","e","t","u","r","n">>,
    <<"s","h","o","r","t">>,
    <<"s","t","a","t","i","c">>,
    <<"s","t","r","i","c","t","f","p">>,
    <<"s","u","p","e","r">>,
    <<"s","w","i","t","c","h">>,
    <<"s","y","n","c","h","r","o","n","i","z","e","d">>,
    <<"t","h","i","s">>,
    <<"t","h","r","o","w">>,
    <<"t","h","r","o","w","s">>,
    <<"t","r","a","n","s","i","e","n","t">>,
    <<"t","r","y">>,
    <<"v","o","i","d">>,
    <<"v","o","l","a","t","i","l","e">>,
    <<"w","h","i","l","e">>
>>

\* QRegularExpression(rf"\b{kw}\b")
KeywordPattern(kw) == [kind |-> "word", lit |-> kw]

\* QRegularExpression(r"\".*\"")
StringPattern == [kind |-> "quoted", lit |-> <<>>]

\* self.rules after construction: one rule per keyword, then the string rule
JavaRules ==
    [i \in 1..Len(keywords) |->
        [pattern |-> KeywordPattern(keywords[i]), fmt |-> keywordFormat]]
    \o << [pattern |-> StringPattern, fmt |-> stringFormat] >>

(* ---------------------------------------------------------------------- *)
(* QRegularExpression matching of the two pattern shapes                   *)
(* ---------------------------------------------------------------------- *)

Max(S) == CHOOSE x \in S : \A y \in S : y <= x
Min(S) == CHOOSE x \in S : \A y \in S : x <= y

IsWordAt(text, i) == i >= 1 /\ i <= Len(text) /\ text[i] \in WordChars

\* \b at 0-based offset p: exactly one of the characters around p is a \w
WordBoundary(text, p) == IsWordAt(text, p) # IsWordAt(text, p + 1)

\* a keyword found as a substring, the \b anchors ignored
WordMatchLengthUnanchored(lit, text, p) ==
    IF p + Len(lit) <= Len(text) /\ SubSeq(text, p + 1, p + Len(lit)) = lit
    THEN Len(lit) ELSE -1

\* \bkw\b tried at offset p: the match length, -1 when it does not match there
WordMatchLength(lit, text, p) ==
    IF /\ p + Len(lit) <= Len(text)
       /\ SubSeq(text, p + 1, p + Len(lit)) = lit
       /\ WordBoundary(text, p)
       /\ WordBoundary(text, p + Len(lit))
    THEN Len(lit) ELSE -1

\* ".*?" : the lazy quantifier stops at the nearest closing quote
QuotedMatchLengthLazy(text, p) ==
    LET closing == { j \in (p + 2)..Len(text) : text[j] = QUOTE } IN
    IF p + 1 <= Len(text) /\ text[p + 1] = QUOTE /\ closing # {}
    THEN Min(closing) - p ELSE -1

\* "[^"]*"? : the closing quote optional, an open string runs to the line end
QuotedMatchLengthOpen(text, p) ==
    LET closing == { j \in (p + 2)..Len(text) : text[j] = QUOTE } IN
    IF p + 1 <= Len(text) /\ text[p + 1] = QUOTE
    THEN (IF closing # {} THEN Max(closing) - p ELSE Len(text) - p)
    ELSE -1

\* ".*" tried at offset p: an opening quote at p, then the greedy .* backs off
\* to the last quote of the line; -1 when it does not match there
QuotedMatchLength(text, p) ==
    LET closing == { j \in (p + 2)..Len(text) : text[j] = QUOTE } IN
    IF p + 1 <= Len(text) /\ text[p + 1] = QUOTE /\ closing # {}
    THEN Max(closing) - p ELSE -1

MatchLength(pattern, text, p) ==
    IF pattern.kind = "word"
    THEN WordMatchLength(pattern.lit, text, p)
    ELSE QuotedMatchLength(text, p)

\* pattern.globalMatch(text) from offset p on: the matches left to right, the
\* search resuming at the end of each match
RECURSIVE globalMatch(_, _, _)
globalMatch(pattern, text, p) ==
    IF p >= Len(text) THEN <<>>
    ELSE LET n == MatchLength(pattern, text, p) IN
         IF n > 0
         THEN << [start |-> p, length |-> n] >> \o globalMatch(pattern, text, p + n)
         ELSE globalMatch(pattern, text, p + 1)

(* ---------------------------------------------------------------------- *)
(* JavaHighlighter.highlightBlock                                          *)
(* ---------------------------------------------------------------------- *)

\* a setFormat that leaves already formatted positions alone
setFormatKeep(formats, start, count, fmt) ==
    [i \in 1..Len(formats) |->
        IF i > start /\ i <= start + count /\ formats[i] = NoFormat
        THEN fmt ELSE formats[i]]

\* QSyntaxHighlighter.setFormat(start, count, fmt): overwrites the range
setFormat(formats, start, count, fmt) ==
    [i \in 1..Len(formats) |->
        IF i > start /\ i <= start + count THEN fmt ELSE formats[i]]

\* the inner while loop: one setFormat call per match of one rule
RECURSIVE formatMatches(_, _, _)
formatMatches(h, matches, fmt) ==
    IF matches = <<>> THEN h
    ELSE LET m == Head(matches) IN
         formatMatches(
            [spans   |-> Append(h.spans,
                           [start |-> m.start, length |-> m.length, fmt |-> fmt]),
             formats |-> setFormat(h.formats, m.start, m.length, fmt)],
            Tail(matches), fmt)

\* the characters that occur in a text
Chars(text) == { text[j] : j \in 1..Len(text) }

\* it = pattern.globalMatch(text), all the matches the iterator yields.  A
\* keyword with a character the text lacks matches nowhere, so the scan is
\* only made for the other patterns (chars is Chars(text)).
matchesOf(pattern, text, chars) ==
    IF pattern.kind = "word" /\ \E i \in 1..Len(pattern.lit) : pattern.lit[i] \notin chars
    THEN << >>
    ELSE globalMatch(pattern, text, 0)

\* the outer for loop over self.rules, from rule k on
RECURSIVE formatRules(_, _, _, _, _)
formatRules(h, rs, text, chars, k) ==
    IF k > Len(rs) THEN h
    ELSE formatRules(
            formatMatches(h, matchesOf(rs[k].pattern, text, chars), rs[k].fmt),
            rs, text, chars, k + 1)

\* a highlightBlock that keeps only the rules that matched
highlightBlockPrune(rs, text) ==
    LET h == formatRules([spans |-> <<>>,
                          formats |-> [i \in 1..Len(text) |-> NoFormat]],
                         rs, text, Chars(text), 1)
    IN  [rules   |-> SelectSeq(rs, LAMBDA r : globalMatch(r.pattern, text, 0) # <<>>),
         spans   |-> h.spans,
         formats |-> h.formats]

\* highlightBlock(text) with the rule table rs: the setFormat calls it makes
\* (spans), the formats of the block afterwards, and the rule table it leaves.
\* QSyntaxHighlighter hands it a block whose formats are all cleared.
highlightBlock(rs, text) ==
    LET h == formatRules([spans |-> <<>>,
                          formats |-> [i \in 1..Len(text) |-> NoFormat]],
                         rs, text, Chars(text), 1)
    IN  [rules |-> rs, spans |-> h.spans, formats |-> h.formats]

(* ---------------------------------------------------------------------- *)
(* State                                                                   *)
(* ---------------------------------------------------------------------- *)

VARIABLES
    rules,          \* JavaHighlighter.rules
    doc,            \* the blocks (lines) of the editor's document
    row,            \* the block of the text cursor, 1-based
    col,            \* the cursor's offset in its block, 0-based
    formats,        \* per block, the format of each of its characters
    hlText,         \* the text of the latest highlightBlock call
    spans,          \* the setFormat calls of the latest highlightBlock call
    refText,        \* a reference line (history)
    refCount,       \* handlers that ended with highlightBlock's latest call
                    \*   on the reference line, counted up to 2
    refSpans,       \* the spans of the first highlightBlock call on it
    lastEvent,      \* the handler that ran last (history)
    lastLine,       \* the line the last Return key selected (history)
    lastIndent,     \* the indent the last Return key inserted (history)
    keys,           \* number of key events so far
    current_file,   \* JavaEditorMain.current_file
    disk,           \* the file system: path -> whether it exists, its text
    console,        \* the lines of the console widget
    warnings,       \* number of QMessageBox.warning dialogs shown
    buildFile,      \* current_file when build_and_run last started (history)
    calls           \* what the last build_and_run invoked, in order (history)

edVars == << doc, row, col >>
hlVars == << rules, formats, hlText, spans >>
refVars == << refText, refCount, refSpans >>
retVars == << lastLine, lastIndent >>
fileVars == << current_file, disk, console, warnings, buildFile, calls >>
vars == << rules, doc, row, col, formats, hlText, spans, refText, refCount,
           refSpans, lastLine, lastIndent,
           lastEvent, keys, current_file, disk, console, warnings, buildFile,
           calls >>

None == "None"
Absent == [exists |-> FALSE, text |-> << >>]

(* ---------------------------------------------------------------------- *)
(* CodeEditor: the text widget with its highlighter                        *)
(* ---------------------------------------------------------------------- *)

\* The widget is the record [doc, row, col, rules, formats, hlText, spans].
\* Every change of a block re-runs highlightBlock on that block, synchronously
\* (QSyntaxHighlighter is connected to the document's contentsChange).
Widget ==
    [doc |-> doc, row |-> row, col |-> col, rules |-> rules,
     formats |-> formats, hlText |-> hlText, spans |-> spans]

\* QSyntaxHighlighter re-highlights block b of w.doc
rehighlightBlock(w, b) ==
    LET h == highlightBlock(w.rules, w.doc[b]) IN
    [w EXCEPT !.rules = h.rules,
              !.formats = [w.formats EXCEPT ![b] = h.formats],
              !.hlText = w.doc[b],
              !.spans = h.spans]

\* QPlainTextEdit.insertPlainText(text), text without line breaks: inserted at
\* the cursor, the cursor ends behind it; an empty text changes nothing
insertPlainText(w, text) ==
    IF text = <<>> THEN w
    ELSE LET line == w.doc[w.row] IN
         rehighlightBlock(
            [w EXCEPT !.doc = [w.doc EXCEPT ![w.row] =
                                  SubSeq(line, 1, w.col) \o text
                                  \o SubSeq(line, w.col + 1, Len(line))],
                      !.col = w.col + Len(text)],
            w.row)

\* the default line break: the cursor's block is split at the cursor, the
\* cursor moves to the start of the new block; both blocks are re-highlighted
insertBlock(w) ==
    LET line == w.doc[w.row]
        w1 == [w EXCEPT
                 !.doc = SubSeq(w.doc, 1, w.row - 1)
                         \o << SubSeq(line, 1, w.col),
                               SubSeq(line, w.col + 1, Len(line)) >>
                         \o SubSeq(w.doc, w.row + 1, Len(w.doc)),
                 !.formats = SubSeq(w.formats, 1, w.row)
                             \o << <<>> >>
                             \o SubSeq(w.formats, w.row + 1, Len(w.formats)),
                 !.row = w.row + 1,
                 !.col = 0]
    IN  rehighlightBlock(rehighlightBlock(w1, w.row), w.row + 1)

\* Backspace: deletes the character before the cursor; at the start of a block
\* joins it to the block before; at the start of the document does nothing
deletePreviousChar(w) ==
    LET line == w.doc[w.row] IN
    IF w.col > 0
    THEN rehighlightBlock(
            [w EXCEPT !.doc = [w.doc EXCEPT ![w.row] =
                                  SubSeq(line, 1, w.col - 1)
                                  \o SubSeq(line, w.col + 1, Len(line))],
                      !.col = w.col - 1],
            w.row)
    ELSE IF w.row > 1
    THEN rehighlightBlock(
            [w EXCEPT !.doc = SubSeq(w.doc, 1, w.row - 2)
                              \o << w.doc[w.row - 1] \o line >>
                              \o SubSeq(w.doc, w.row + 1, Len(w.doc)),
                      !.formats = SubSeq(w.formats, 1, w.row - 1)
                                  \o SubSeq(w.formats, w.row + 1, Len(w.formats)),
                      !.row = w.row - 1,
                      !.col = Len(w.doc[w.row - 1])],
            w.row - 1)
    ELSE w

\* Left: the cursor moves one character back, over a block boundary too
moveLeft(w) ==
    IF w.col > 0 THEN [w EXCEPT !.col = w.col - 1]
    ELSE IF w.row > 1
    THEN [w EXCEPT !.row = w.row - 1, !.col = Len(w.doc[w.row - 1])]
    ELSE w

\* QPlainTextEdit.keyPressEvent, the default behaviour of a key:
\* Return and Enter (keypad) break the line, a key with text inserts its text
defaultKeyPress(w, event) ==
    CASE event.key \in {"Return", "Enter"} -> insertBlock(w)
      [] event.key = "Backspace" -> deletePreviousChar(w)
      [] event.key = "Left" -> moveLeft(w)
      [] OTHER -> insertPlainText(w, event.text)

\* line.lstrip() without argument: tabs are stripped as well
RECURSIVE lstripAny(_)
lstripAny(line) ==
    IF line # <<>> /\ Head(line) \in Whitespace THEN lstripAny(Tail(line)) ELSE line

\* line.lstrip(' ')
RECURSIVE lstripSpace(_)
lstripSpace(line) ==
    IF line # <<>> /\ Head(line) = SP THEN lstripSpace(Tail(line)) ELSE line

\* line.strip()
RECURSIVE strip(_)
strip(line) ==
    IF line = <<>> THEN line
    ELSE IF Head(line) \in Whitespace THEN strip(Tail(line))
    ELSE IF line[Len(line)] \in Whitespace THEN strip(SubSeq(line, 1, Len(line) - 1))
    ELSE line

\* s.endswith(c) for a one-character c
endswith(s, c) == s # <<>> /\ s[Len(s)] = c

\* the indentation unit added behind an opening brace
IndentUnit == 4

\* the indent of keyPressEvent for the line it selected
computeIndent(line) ==
    LET indent == Len(line) - Len(lstripSpace(line)) IN
    IF endswith(strip(line), LBRACE) THEN indent + IndentUnit ELSE indent

\* ' ' * n
Spaces(n) == [i \in 1..n |-> SP]

\* the text of the cursor's block up to the cursor only
selectedLineToCursor(w) == SubSeq(w.doc[w.row], 1, w.col)

\* cursor.movePosition(StartOfBlock); cursor.select(LineUnderCursor);
\* cursor.selectedText(): on a copy of the text cursor, the widget's own cursor
\* stays.  Blocks are taken to fit the viewport width (no soft wrap), so the
\* line under the cursor at the block's start is the whole block.
selectedLine(w) == w.doc[w.row]

\* CodeEditor.keyPressEvent as a function of the widget
keyPress(w, event) ==
    IF event.key = "Return"
    THEN LET indent == computeIndent(selectedLine(w)) IN
         insertPlainText(defaultKeyPress(w, event), Spaces(indent))
    ELSE defaultKeyPress(w, event)

\* the first highlightBlock call on the reference line is remembered
Remember(w) ==
    /\ refCount' = IF w.hlText = refText /\ refCount < 2
                   THEN refCount + 1 ELSE refCount
    /\ refSpans' = IF refCount = 0 /\ w.hlText = refText THEN w.spans ELSE refSpans

\* CodeEditor.keyPressEvent
keyPressEvent(event) ==
    /\ keys < MaxKeys
    /\ \E w \in { keyPress(Widget, event) } :
        /\ doc' = w.doc
        /\ row' = w.row
        /\ col' = w.col
        /\ rules' = w.rules
        /\ formats' = w.formats
        /\ hlText' = w.hlText
        /\ spans' = w.spans
        /\ Remember(w)
    /\ keys' = keys + 1
    /\ lastEvent' = event.key
    /\ lastLine' = IF event.key = "Return" THEN selectedLine(Widget) ELSE << >>
    /\ lastIndent' = IF event.key = "Return"
                     THEN Spaces(computeIndent(selectedLine(Widget))) ELSE << >>
    /\ UNCHANGED << refText, fileVars >>

(* ---------------------------------------------------------------------- *)
(* JavaEditorMain: files, save, build and run                              *)
(* ---------------------------------------------------------------------- *)

Paths == { "Main.java", "Demo.java" }

\* os.path.splitext(os.path.basename(path))[0]
ClassName(path) == IF path = "Main.java" THEN "Main" ELSE "Demo"

\* what a subprocess.run can come to: it raises (the command is not installed)
\* or it completes with a return code and, possibly, text on stderr
RunOutcomes ==
    { [raised |-> TRUE, returncode |-> 0, stderr |-> FALSE] }
    \cup { [raised |-> FALSE, returncode |-> rc, stderr |-> e] :
             rc \in {0, 1}, e \in BOOLEAN }

\* JavaEditorMain.load_file(path), reached from open_dialog and open_file:
\* setPlainText replaces the document and every block is highlighted
load_file(path) ==
    /\ warnings < MaxWarnings
    /\ IF disk[path] = Absent
       THEN /\ warnings' = warnings + 1
            /\ UNCHANGED << edVars, hlVars, refCount, refSpans, current_file >>
       ELSE LET text == disk[path].text
                hs == [b \in 1..Len(text) |-> highlightBlock(rules, text[b])]
            IN  /\ doc' = text
                /\ row' = 1
                /\ col' = 0
                /\ rules' = hs[Len(text)].rules
                /\ formats' = [b \in 1..Len(text) |-> hs[b].formats]
                /\ hlText' = text[Len(text)]
                /\ spans' = hs[Len(text)].spans
                /\ Remember([hlText |-> text[Len(text)], spans |-> hs[Len(text)].spans])
                /\ current_file' = path
                /\ UNCHANGED warnings
    /\ lastEvent' = "load_file"
    /\ UNCHANGED << refText, retVars, keys, disk, console, buildFile, calls >>

\* the body of save_file once current_file is set: the write succeeds
\* (ok) and is reported on the console, or fails and is reported in a dialog
writeCurrent(file, ok, st) ==
    IF ok
    THEN [st EXCEPT !.disk = [st.disk EXCEPT ![file] = [exists |-> TRUE, text |-> st.doc]],
                    !.console = Append(st.console, "saved")]
    ELSE [st EXCEPT !.warnings = st.warnings + 1]

\* JavaEditorMain.save_file; chosen is the path of the save dialog ("" when
\* the dialog is cancelled), asked for only while no file is current
save_file(chosen, ok) ==
    /\ Len(console) < MaxConsole
    /\ warnings < MaxWarnings
    /\ IF current_file = None /\ chosen = ""
       THEN UNCHANGED << current_file, disk, console, warnings >>
       ELSE LET file == IF current_file = None THEN chosen ELSE current_file
                st == writeCurrent(file, ok,
                        [doc |-> doc, disk |-> disk, console |-> console,
                         warnings |-> warnings])
            IN  /\ current_file' = file
                /\ disk' = st.disk
                /\ console' = st.console
                /\ warnings' = st.warnings
    /\ lastEvent' = "save_file"
    /\ UNCHANGED << edVars, hlVars, refVars, retVars, keys, buildFile, calls >>

\* a build that runs the class whatever javac returned
compileAndRunAlways(file, javac, java) ==
    IF javac.raised
    THEN [calls |-> << [cmd |-> "javac", arg |-> file, returncode |-> -1] >>,
          console |-> << "exception" >>]
    ELSE IF java.raised
    THEN [calls |-> << [cmd |-> "javac", arg |-> file,
                        returncode |-> javac.returncode],
                       [cmd |-> "java", arg |-> ClassName(file), returncode |-> -1] >>,
          console |-> << "compile_ok", "exception" >>]
    ELSE [calls |-> << [cmd |-> "javac", arg |-> file,
                        returncode |-> javac.returncode],
                       [cmd |-> "java", arg |-> ClassName(file),
                        returncode |-> java.returncode] >>,
          console |-> << "compile_ok", "stdout" >>
                      \o (IF java.stderr THEN << "stderr" >> ELSE << >>)]

\* build_and_run from console.clear() on: the commands invoked, in order, and
\* the console they leave.  returncode -1 stands for a call that raised.
compileAndRun(file, javac, java) ==
    IF javac.raised
    THEN [calls |-> << [cmd |-> "javac", arg |-> file, returncode |-> -1] >>,
          console |-> << "exception" >>]
    ELSE IF javac.returncode # 0
    THEN [calls |-> << [cmd |-> "javac", arg |-> file,
                        returncode |-> javac.returncode] >>,
          console |-> << "compile_error" >>]
    ELSE IF java.raised
    THEN [calls |-> << [cmd |-> "javac", arg |-> file,
                        returncode |-> javac.returncode],
                       [cmd |-> "java", arg |-> ClassName(file), returncode |-> -1] >>,
          console |-> << "compile_ok", "exception" >>]
    ELSE [calls |-> << [cmd |-> "javac", arg |-> file,
                        returncode |-> javac.returncode],
                       [cmd |-> "java", arg |-> ClassName(file),
                        returncode |-> java.returncode] >>,
          console |-> << "compile_ok", "stdout" >>
                      \o (IF java.stderr THEN << "stderr" >> ELSE << >>)]

\* JavaEditorMain.build_and_run; saveOk, javac and java are what the file
\* write and the two subprocesses come to
build_and_run(saveOk, javac, java) ==
    /\ warnings < MaxWarnings
    /\ buildFile' = current_file
    /\ IF current_file = None
       THEN /\ warnings' = warnings + 1
            /\ calls' = << >>
            /\ UNCHANGED << disk, console >>
       ELSE LET st == writeCurrent(current_file, saveOk,
                        [doc |-> doc, disk |-> disk, console |-> console,
                         warnings |-> warnings])
                b == compileAndRun(current_file, javac, java)
            IN  /\ disk' = st.disk
                /\ warnings' = st.warnings
                /\ calls' = << [cmd |-> "save", arg |-> current_file,
                                returncode |-> IF saveOk THEN 0 ELSE -1] >>
                            \o b.calls
                /\ console' = b.console
    /\ lastEvent' = "build_and_run"
    /\ UNCHANGED << edVars, hlVars, refVars, retVars, keys, current_file >>

(* ---------------------------------------------------------------------- *)
(* Inputs and specifications                                               *)
(* ---------------------------------------------------------------------- *)

\* a letter outside ASCII
EACUTE == "é"

\* key events: a key (or the paste shortcut) that inserts text, and the
\* editing keys
TextEvent(t) == [key |-> "Text", text |-> t]
KeyEvent(k) == [key |-> k, text |-> << >>]

\* texts typed into a line of Java
HLTexts ==
    { << "i", "n", "t" >>, << "d", "o" >>, << "x" >>, << SP >>, << QUOTE >>,
      << EACUTE >>, << "/" >> }

\* texts typed into the reference lines
PureTexts == { << "i", "n", "t" >>, << "d", "o" >>, << SP >>, << QUOTE >> }

\* texts typed while indenting
EdTexts == { << SP >>, << TAB >>, << LBRACE >>, << "x" >> }

\* reference lines of the history variables refText, refSpans
RefLines ==
    { << QUOTE, "i", "n", "t", QUOTE >>,
      << "i", "n", "t", SP, "d", "o" >>,
      << "d", "o", QUOTE >> }

\* the state after construction, the empty document highlighted
InitWith(ref) ==
    /\ rules = JavaRules
    /\ doc = << << >> >>
    /\ row = 1
    /\ col = 0
    /\ formats = << << >> >>
    /\ hlText = << >>
    /\ spans = << >>
    /\ refText = ref
    /\ refCount = 0
    /\ lastLine = << >>
    /\ lastIndent = << >>
    /\ refSpans = << >>
    /\ lastEvent = None
    /\ keys = 0
    /\ current_file = None
    /\ disk = [p \in Paths |-> Absent]
    /\ console = << >>
    /\ warnings = 0
    /\ buildFile = None
    /\ calls = << >>

Init == InitWith(<< >>)

\* the same, for each of the reference lines
InitPure == \E ref \in RefLines : InitWith(ref)

\* typing and deleting in one line
NextHL ==
    /\ keys < MaxLineKeys
    /\ \E e \in { TextEvent(t) : t \in HLTexts } \cup { KeyEvent("Backspace") } :
          keyPressEvent(e)

\* typing and deleting keywords and quotes in one line
NextPure ==
    \E e \in { TextEvent(t) : t \in PureTexts } \cup { KeyEvent("Backspace") } :
        keyPressEvent(e)

\* typing, moving and breaking lines
NextEd ==
    \E e \in { TextEvent(t) : t \in EdTexts }
             \cup { KeyEvent(k) : k \in {"Return", "Enter", "Left", "Backspace"} } :
        keyPressEvent(e)

\* opening, saving and building files
NextBuild ==
    \/ \E p \in Paths : load_file(p)
    \/ \E chosen \in Paths \cup {""}, ok \in BOOLEAN : save_file(chosen, ok)
    \/ \E saveOk \in BOOLEAN, javac \in RunOutcomes, java \in RunOutcomes :
          build_and_run(saveOk, javac, java)

Next == NextHL \/ NextPure \/ NextEd \/ NextBuild

SpecHL == Init /\ [][NextHL]_vars
SpecPure == InitPure /\ [][NextPure]_vars
SpecEd == Init /\ [][NextEd]_vars
SpecBuild == Init /\ [][NextBuild]_vars
Spec == Init /\ [][Next]_vars

(* ---------------------------------------------------------------------- *)
(* Properties                                                              *)
(* ---------------------------------------------------------------------- *)

\* the number of literal spaces a line starts with
LeadingSpaces(line) ==
    Max({ k \in 0..Len(line) : \A i \in 1..k : line[i] = SP })

\* the last character of the line that is not whitespace is an opening brace
LastVisibleIsBrace(line) ==
    \E i \in 1..Len(line) :
        /\ line[i] = LBRACE
        /\ \A j \in (i + 1)..Len(line) : line[j] \in Whitespace

\* the indent the Return key is to insert behind a line
ExpectedIndent(line) ==
    LeadingSpaces(line) + (IF LastVisibleIsBrace(line) THEN 4 ELSE 0)

QuoteOffsets(text) == { i \in 1..Len(text) : text[i] = QUOTE }

\* the rules with a match that covers the character at 1-based index i
RulesCovering(text, i) ==
    { k \in 1..Len(JavaRules) :
        LET ms == matchesOf(JavaRules[k].pattern, text, Chars(text)) IN
        \E n \in 1..Len(ms) : ms[n].start < i /\ i <= ms[n].start + ms[n].length }

\* C2: a character covered by matches of two or more rules ends with the
\* format of the last of these rules in the rule table, and the setFormat
\* calls are made in rule-table order (every keyword span before the string
\* span).
C2_LastRuleWins ==
    /\ \A i \in 1..Len(doc[row]) :
          LET R == RulesCovering(doc[row], i) IN
          Cardinality(R) >= 2 => formats[row][i] = JavaRules[Max(R)].fmt
    /\ \A a, b \in 1..Len(spans) :
          (spans[a].fmt = stringFormat /\ spans[b].fmt = keywordFormat) => b < a

\* C2 witness: the keyword int inside a quoted string ends string-formatted
C2_Witness ==
    /\ doc[row] = << QUOTE, "i", "n", "t", QUOTE >>
    /\ Cardinality(RulesCovering(doc[row], 3)) = 2
    /\ formats[row][3] = stringFormat

\* the format a comment would be given
commentFormat == "comment"

\* C3: in a line that contains //, every character from the first // to the
\* end of the line ends with the comment format.
C3_CommentToLineEnd ==
    \A p \in 1..(Len(hlText) - 1) :
        (hlText[p] = "/" /\ hlText[p + 1] = "/") =>
            \A i \in p..Len(hlText) : formats[row][i] = commentFormat

\* the indexes of the string-formatted spans
StringSpans == { k \in 1..Len(spans) : spans[k].fmt = stringFormat }

\* C4: a line with two or more double quotes gets exactly one string span,
\* from the first double quote of the line to the last one.
C4_OneGreedyStringSpan ==
    LET qs == QuoteOffsets(hlText) IN
    Cardinality(qs) >= 2 =>
        /\ Cardinality(StringSpans) = 1
        /\ \A k \in StringSpans :
              /\ spans[k].start = Min(qs) - 1
              /\ spans[k].start + spans[k].length = Max(qs)

\* C4 witness: the two string literals "" and "" on one line, one span over both
C4_Witness ==
    /\ hlText = << QUOTE, QUOTE, QUOTE, QUOTE >>
    /\ spans = << [start |-> 0, length |-> 4, fmt |-> stringFormat] >>

\* letters, digits and the underscore: the characters of an identifier
IdentifierChars == WordChars \cup { EACUTE }

\* C5: a keyword span has no identifier character (letter, digit, underscore)
\* immediately before it nor immediately after it.
C5_WholeWordsOnly ==
    \A k \in 1..Len(spans) :
        spans[k].fmt = keywordFormat =>
            /\ spans[k].start > 0 => hlText[spans[k].start] \notin IdentifierChars
            /\ spans[k].start + spans[k].length < Len(hlText) =>
                  hlText[spans[k].start + spans[k].length + 1] \notin IdentifierChars

\* the keyword occurrences of a text, as <<offset, length>>, with the line
\* start or a character of the set before and the line end or a character
\* of the set behind
KeywordsBetween(text, before, behind) ==
    UNION { { << p, Len(keywords[k]) >> :
                p \in { q \in 0..(Len(text) - Len(keywords[k])) :
                          /\ text[q + 1] = keywords[k][1]
                          /\ SubSeq(text, q + 1, q + Len(keywords[k])) = keywords[k]
                          /\ (q = 0 \/ text[q] \in before)
                          /\ \/ q + Len(keywords[k]) = Len(text)
                             \/ text[q + Len(keywords[k]) + 1] \in behind } } :
            k \in 1..Len(keywords) }

\* the characters of the typed texts, and those that are no word characters
TypedChars == UNION { Chars(t) : t \in HLTexts \cup EdTexts }
NonWordChars == TypedChars \ WordChars

\* keyword tokens bounded by whitespace
KeywordTokens(text) == KeywordsBetween(text, Whitespace, Whitespace)

\* keywords standing as whole words: no word character on either side
WholeWordKeywords(text) == KeywordsBetween(text, NonWordChars, NonWordChars)

\* the one span of the line is the keyword span of the token tok
IsTheOnlySpan(tok) ==
    spans = << [start |-> tok[1], length |-> tok[2], fmt |-> keywordFormat] >>

\* C6 as stated: a line with exactly one keyword token bounded by whitespace
\* gets exactly one span, the keyword span of that token.
C6_OneKeywordOneSpan ==
    Cardinality(KeywordTokens(hlText)) = 1 =>
        \A tok \in KeywordTokens(hlText) : IsTheOnlySpan(tok)

\* C6 amended: a line with exactly one keyword token bounded by whitespace,
\* no other keyword standing as a whole word and fewer than two double quotes
\* gets exactly one span, the keyword span of that token.
C6_OneKeywordOneSpanAmended ==
    ( /\ Cardinality(KeywordTokens(hlText)) = 1
      /\ WholeWordKeywords(hlText) = KeywordTokens(hlText)
      /\ Cardinality(QuoteOffsets(hlText)) < 2 ) =>
        \A tok \in KeywordTokens(hlText) : IsTheOnlySpan(tok)

\* C6 witness: the token int before a space, and an identifier that holds a
\* keyword on the same line
C6_Witness ==
    /\ hlText = << "i", "n", "t", SP, "x", "d", "o" >>
    /\ IsTheOnlySpan(<< 0, 3 >>)

\* C7: a line with exactly one double quote gets no string span; its spans
\* are the keyword matches, and every character outside them is unformatted.
C7_UnterminatedString ==
    Cardinality(QuoteOffsets(hlText)) = 1 =>
        /\ StringSpans = {}
        /\ { << spans[k].start, spans[k].length >> : k \in 1..Len(spans) }
              = WholeWordKeywords(hlText)
        /\ Len(spans) = Cardinality(WholeWordKeywords(hlText))
        /\ \A i \in 1..Len(hlText) :
              formats[row][i] =
                 IF \E k \in 1..Len(spans) :
                       spans[k].start < i /\ i <= spans[k].start + spans[k].length
                 THEN keywordFormat ELSE NoFormat

\* C7 witness: int "do, the keywords formatted, the open string not
C7_Witness ==
    /\ hlText = << "i", "n", "t", SP, QUOTE, "d", "o" >>
    /\ Len(spans) = 2
    /\ formats[row][5] = NoFormat

RECURSIVE TotalLen(_)
TotalLen(d) == IF d = << >> THEN 0 ELSE Len(Head(d)) + TotalLen(Tail(d))

C10_RunOnlyAfterCompile ==
    /\ \A j \in 1..Len(calls) :
          calls[j].cmd = "java" =>
             /\ j > 1
             /\ calls[j - 1].cmd = "javac"
             /\ calls[j - 1].returncode = 0
    /\ \A j \in 1..Len(calls) :
          (calls[j].cmd = "javac" /\ calls[j].returncode # 0) => j = Len(calls)
    /\ \A j \in 1..Len(calls) : calls[j].cmd = "javac" => j = 2 /\ calls[1].cmd = "save"
    /\ buildFile = None => calls = << >>

\* C10 witness: a build whose javac returned 1 and that stopped there
C10_Witness ==
    /\ lastEvent = "build_and_run"
    /\ Len(calls) = 2
    /\ calls[2].cmd = "javac"
    /\ calls[2].returncode = 1

====
